---- MODULE Spec2Model ----
(***************************************************************************)
(* Test execution orchestration of playwright-mcp-example: one test        *)
(* request (POST /test/traditional or POST /test/agentic) driving one      *)
(* executor run against its own PlaywrightClient, the action log and the   *)
(* test-result table of the session, the agentic timeout timer and the     *)
(* operator's DELETE /session.                                             *)
(***************************************************************************)
EXTENDS Integers, Sequences, FiniteSets, TLC

(* ------------------------------ bounds -------------------------------- *)
MaxSteps == 2
MaxAssertions == 2
MaxAttemptsInput == 2
MaxConfigs == 2
MaxRequests == 2
MaxCalls == 2
MaxLogs == 3
MaxTime == 1
MaxReads == 2
MaxLaunches == 2
MaxDisposals == 2
MaxClientOps == 5

(* max_attempts?: number left out of the goal descriptor *)
Undefined == -1
(* config.max_attempts || 3 *)
DefaultMaxAttempts == 3

(* ------------------------------ values -------------------------------- *)
NoError == "none"
ValidationError == "validation"
AutomationError == "automation"
AssertionError == "assertion"
StorageError == "storage"
GoalSummary == "Failed to achieve goal"

TestStep(action, url, selector, value) ==
    [action |-> action, url |-> url, selector |-> selector, value |-> value]

TestAssertion(type, selector, expected) ==
    [type |-> type, selector |-> selector, expected |-> expected]

(* steps a request can carry: url, selector and value are present or absent *)
StepPool ==
    { TestStep("navigate", TRUE, FALSE, FALSE),
      TestStep("click", FALSE, FALSE, FALSE),
      TestStep("screenshot", FALSE, FALSE, FALSE),
      TestStep("custom", FALSE, FALSE, FALSE) }

(* assertions a request can carry: expected is undefined, a string or a number *)
AssertionPool ==
    { TestAssertion("exists", TRUE, "undefined"),
      TestAssertion("count", TRUE, "other text"),
      TestAssertion("custom", FALSE, "undefined") }

SeqsUpTo(S, n) == UNION { [1..k -> S] : k \in 0..n }

IsNumber(expected) == expected \in {"1", "2"}

(* ------------------------- PlaywrightClient --------------------------- *)
NullPromise == [st |-> "null", h |-> 0]
Rejected == [st |-> "rejected", h |-> 0]
Resolved(h) == [st |-> "ok", h |-> h]

Handle(kind, h) == [kind |-> kind, h |-> h]
ClientOp(op, what, h) == [op |-> op, what |-> what, h |-> h]

NewClient == [browserPromise |-> NullPromise,
              contextPromise |-> NullPromise,
              pagePromise |-> NullPromise]

NoRemote == [open |-> {}, ops |-> << >>, nextHandle |-> 1, disposals |-> 0]

CloseKinds == {"page", "context", "browser"}

(* the closes of one dispose that fail: none, or any one of them *)
CloseFailures == { {} } \cup { {k} : k \in CloseKinds }

(* what the browser service can answer to one automation call *)
Outcomes(pw) ==
    IF pw.pagePromise.st = "null"
    THEN {"ok", "action_fail", "launch_fail", "context_fail", "page_fail"}
    ELSE IF pw.pagePromise.st = "ok" THEN {"ok", "action_fail"} ELSE {"page_fail"}

(* getBrowser: playwright.launch *)
getBrowser(outcome, h) ==
    IF outcome = "launch_fail" THEN Rejected ELSE Resolved(h)

(* getContext: getBrowser().then(browser => browser.newContext()) *)
getContext(outcome, h) ==
    IF outcome \in {"launch_fail", "context_fail"} THEN Rejected ELSE Resolved(h)

(* the promise of getPage: getContext().then(context => context.newPage()) *)
newPage(outcome, h) ==
    IF outcome \in {"launch_fail", "context_fail", "page_fail"} THEN Rejected ELSE Resolved(h)

(* the handles the browser service opens for one launch *)
Opened(outcome, h) ==
    { Handle(k, h) : k \in
        CASE outcome = "launch_fail" -> {}
          [] outcome = "context_fail" -> {"browser"}
          [] outcome = "page_fail" -> {"browser", "context"}
          [] OTHER -> CloseKinds }

(* getPage: the three promises are created together when there is no page promise *)
getPage(c, outcome) ==
    IF c.pw.pagePromise.st # "null" THEN c
    ELSE [pw |-> [browserPromise |-> getBrowser(outcome, c.rem.nextHandle),
                  contextPromise |-> getContext(outcome, c.rem.nextHandle),
                  pagePromise |-> newPage(outcome, c.rem.nextHandle)],
          rem |-> [c.rem EXCEPT !.open = @ \cup Opened(outcome, c.rem.nextHandle),
                                !.ops = Append(@, ClientOp("launch", "browser", c.rem.nextHandle)),
                                !.nextHandle = @ + 1]]

(* one close of dispose: awaits the promise, closes, swallows any failure; *)
(* a closed browser takes its context and page with it                     *)
CloseOne(rem, promise, kind, closeFails) ==
    IF promise.st # "ok" THEN rem
    ELSE [rem EXCEPT !.ops = Append(@, ClientOp("close", kind, promise.h)),
                     !.open = IF kind \in closeFails THEN @
                              ELSE IF kind = "browser" THEN { r \in @ : r.h # promise.h }
                              ELSE @ \ {Handle(kind, promise.h)}]

(* dispose: the three fields are cleared first, then page, context, browser close *)
dispose(c, closeFails) ==
    [pw |-> NewClient,
     rem |-> CloseOne(
               CloseOne(
                 CloseOne([c.rem EXCEPT !.disposals = @ + 1],
                          c.pw.pagePromise, "page", closeFails),
                 c.pw.contextPromise, "context", closeFails),
               c.pw.browserPromise, "browser", closeFails)]

Threw(c, error) == [pw |-> c.pw, rem |-> c.rem, threw |-> error]

(* the try of runWithPage: the action on the page, dispose when it fails *)
runAction(c, api, outcome, closeFails) ==
    IF outcome = "action_fail"
    THEN Threw(dispose([c EXCEPT !.rem.ops = Append(@, ClientOp("call", api, c.pw.pagePromise.h))],
                       closeFails),
               AutomationError)
    ELSE Threw([c EXCEPT !.rem.ops = Append(@, ClientOp("call", api, c.pw.pagePromise.h))],
               NoError)

(* after await this.getPage(): a rejected page promise leaves before the try *)
withPage(c, api, outcome, closeFails) ==
    IF c.pw.pagePromise.st # "ok"
    THEN Threw(c, AutomationError)
    ELSE runAction(c, api, outcome, closeFails)

(* runWithPage: the page is awaited outside the try, the action runs inside it *)
runWithPage(c, api, outcome, closeFails) ==
    withPage(getPage(c, outcome), api, outcome, closeFails)

(* ------------------------------ Logger -------------------------------- *)
ActionLog(actionType, data, n, error) ==
    [action_type |-> actionType, data |-> data, n |-> n, error |-> error]

logAction(lg, actionType, data, n, error) == Append(lg, ActionLog(actionType, data, n, error))
logInfo(lg, message, n) == logAction(lg, "info", message, n, NoError)
logWarning(lg, message) == logAction(lg, "warning", message, 0, NoError)
logDebug(lg, message) == logAction(lg, "debug", message, 0, NoError)
logError(lg, error, context, n) == logAction(lg, "error", context, n, error)
logTestStart(lg) == logAction(lg, "test_start", "testName", 0, NoError)
logTestEndAlwaysPassed(lg, status) == logAction(lg, "test_end", "passed", 0, NoError)
logTestEnd(lg, status) == logAction(lg, "test_end", status, 0, NoError)
logSessionStart(lg, testType) == logAction(lg, "session_start", testType, 0, NoError)
logSessionEnd(lg, status) == logAction(lg, "session_end", status, 0, NoError)

(* what a unit of an executor leaves behind: the client, the log, the error *)
Unit(r, lg, shots, error) ==
    [pw |-> r.pw, rem |-> r.rem, log |-> lg, screenshots |-> shots, threw |-> error]

(* a catch that raises the error again without an entry for it *)
RaisedUnlogged(u, context, down) ==
    IF u.threw = NoError THEN u
    ELSE IF down THEN [u EXCEPT !.threw = StorageError]
    ELSE u

(* the catch of executeStep, executeAssertion, executeAgenticAction and *)
(* takeSnapshot: logError, then the error is raised again              *)
LoggedAndRaised(u, context, down) ==
    IF u.threw = NoError THEN u
    ELSE IF down THEN [u EXCEPT !.threw = StorageError]
    ELSE [u EXCEPT !.log = logError(@, u.threw, context, 0)]

(* a timedExecution that records a failed operation without its error *)
timedExecutionDropsError(r, lg, shots, actionType, data, error, down) ==
    IF down THEN Unit(r, lg, shots, StorageError)
    ELSE Unit(r, logAction(lg, actionType, data, 0, NoError), shots, error)

(* timedExecution around an operation that ended with `error`: one entry after *)
(* the operation, then its outcome; a rejected log write replaces the outcome  *)
timedExecution(r, lg, shots, actionType, data, error, down) ==
    IF down THEN Unit(r, lg, shots, StorageError)
    ELSE Unit(r, logAction(lg, actionType, data, 0, error), shots, error)

(* logInfo as the whole unit: custom steps and custom assertions *)
InfoOnly(c, lg, shots, message, down) ==
    IF down THEN Unit(c, lg, shots, StorageError)
    ELSE Unit(c, logInfo(lg, message, 0), shots, NoError)

(* ----------------------- TraditionalTestExecutor ---------------------- *)
StepApi(action) ==
    CASE action = "navigate" -> "navigate"
      [] action = "click" -> "click"
      [] action = "type" -> "type"
      [] action = "select" -> "selectOption"
      [] OTHER -> "takeScreenshot"

StepValid(step) ==
    CASE step.action = "navigate" -> step.url
      [] step.action = "click" -> step.selector
      [] step.action \in {"type", "select"} -> step.selector /\ step.value
      [] step.action \in {"wait", "screenshot", "custom"} -> TRUE
      [] OTHER -> FALSE

(* screenshots.push(screenshotPath) after a screenshot that was taken *)
Pushed(action, r, shots) ==
    IF action \in {"screenshot", "take_screenshot"} /\ r.threw = NoError
    THEN shots + 1 ELSE shots

(* a step that calls the automation client, inside timedExecution *)
StepCall(step, r, lg, shots, down) ==
    timedExecution(r, lg, Pushed(step.action, r, shots), step.action, "step", r.threw, down)

(* a switch that calls the automation client before it looks at the fields *)
StepBodyCallsFirst(step, c, lg, shots, outcome, closeFails, down) ==
    IF ~StepValid(step)
    THEN Unit(runWithPage(c, StepApi(step.action), outcome, closeFails),
              lg, shots, ValidationError)
    ELSE IF step.action = "custom" THEN InfoOnly(c, lg, shots, "custom step", down)
    ELSE IF step.action = "wait"
    THEN timedExecution(c, lg, shots, "wait", "timeout", NoError, down)
    ELSE StepCall(step, runWithPage(c, StepApi(step.action), outcome, closeFails),
                  lg, shots, down)

(* the switch of executeStep *)
StepBody(step, c, lg, shots, outcome, closeFails, down) ==
    IF ~StepValid(step) THEN Unit(c, lg, shots, ValidationError)
    ELSE IF step.action = "custom" THEN InfoOnly(c, lg, shots, "custom step", down)
    ELSE IF step.action = "wait"
    THEN timedExecution(c, lg, shots, "wait", "timeout", NoError, down)
    ELSE StepCall(step, runWithPage(c, StepApi(step.action), outcome, closeFails),
                  lg, shots, down)

(* executeStep: a failure is logged as an error entry and raised again *)
executeStep(step, c, lg, shots, outcome, closeFails, down) ==
    LoggedAndRaised(StepBody(step, c, lg, shots, outcome, closeFails, down), "step", down)

AssertionValid(assertion) ==
    CASE assertion.type \in {"exists", "visible"} -> assertion.selector
      [] assertion.type \in {"text", "value"} ->
            assertion.selector /\ assertion.expected # "undefined"
      [] assertion.type = "count" -> assertion.selector /\ IsNumber(assertion.expected)
      [] assertion.type = "custom" -> TRUE
      [] OTHER -> FALSE

(* the placeholder helpers: getElementText, getElementValue, getElementCount *)
ActualOf(type) ==
    CASE type = "text" -> "placeholder text"
      [] type = "value" -> "placeholder value"
      [] OTHER -> "1"

(* the error the wrapped check ends with: checkElementExists and            *)
(* checkElementVisible turn a failed snapshot into false, the other helpers *)
(* let it through                                                           *)
AssertionCheck(assertion, callThrew) ==
    IF assertion.type \in {"exists", "visible"}
    THEN IF callThrew = NoError THEN NoError ELSE AssertionError
    ELSE IF callThrew # NoError THEN callThrew
    ELSE IF ActualOf(assertion.type) # assertion.expected THEN AssertionError
    ELSE NoError

(* an assertion that takes its snapshot, inside timedExecution *)
AssertionCall(assertion, r, lg, down) ==
    timedExecution(r, lg, 0, "assertion_" \o assertion.type, "assertion",
                   AssertionCheck(assertion, r.threw), down)

(* the switch of executeAssertion *)
AssertionBody(assertion, c, lg, outcome, closeFails, down) ==
    IF ~AssertionValid(assertion) THEN Unit(c, lg, 0, ValidationError)
    ELSE IF assertion.type = "custom" THEN InfoOnly(c, lg, 0, "custom assertion", down)
    ELSE AssertionCall(assertion, runWithPage(c, "snapshot", outcome, closeFails), lg, down)

(* executeAssertion: a failure is logged as an error entry and raised again *)
executeAssertion(assertion, c, lg, outcome, closeFails, down) ==
    LoggedAndRaised(AssertionBody(assertion, c, lg, outcome, closeFails, down),
                    "assertion", down)

(* ------------------------- AgenticTestExecutor ------------------------ *)
AgenticAction(type, selector, text, url) ==
    [type |-> type, selector |-> selector, text |-> text, url |-> url]

(* planActions: the simulated plan, the same for every goal *)
planActions ==
    << AgenticAction("analyze_page", FALSE, FALSE, FALSE),
       AgenticAction("take_screenshot", FALSE, FALSE, FALSE) >>

(* const maxAttempts = config.max_attempts || 3 *)
maxAttemptsOf(cfg) ==
    IF cfg.max_attempts = Undefined \/ cfg.max_attempts = 0
    THEN DefaultMaxAttempts ELSE cfg.max_attempts

(* checkSuccessCriteria: metCriteria stays empty, so only an empty list is met *)
checkSuccessCriteria(criteria) == Len(<< >>) = Len(criteria)

AgenticValid(action) ==
    CASE action.type \in {"analyze_page", "take_screenshot", "verify_success"} -> TRUE
      [] action.type \in {"click_element", "wait_for_element"} -> action.selector
      [] action.type = "type_text" -> action.selector /\ action.text
      [] action.type = "navigate_to" -> action.url
      [] OTHER -> FALSE

AgenticApi(type) ==
    CASE type = "take_screenshot" -> "takeScreenshot"
      [] type = "click_element" -> "click"
      [] type = "type_text" -> "type"
      [] type = "navigate_to" -> "navigate"
      [] OTHER -> "snapshot"

SnapshotCall(r, lg, shots, down) ==
    timedExecution(r, lg, shots, "take_snapshot", "snapshot", r.threw, down)

(* takeSnapshot: a timed snapshot call, a failure logged and raised again *)
takeSnapshot(c, lg, shots, outcome, closeFails, down) ==
    LoggedAndRaised(SnapshotCall(runWithPage(c, "snapshot", outcome, closeFails),
                                 lg, shots, down),
                    "take_snapshot", down)

(* a plan action that calls the automation client, inside timedExecution *)
AgenticCall(action, r, lg, shots) ==
    timedExecution(r, lg, Pushed(action.type, r, shots), action.type, "action", r.threw, FALSE)

(* the switch of executeAgenticAction, after its first info entry *)
AgenticBody(action, c, lg, shots, outcome, closeFails) ==
    IF ~AgenticValid(action) THEN Unit(c, lg, shots, ValidationError)
    ELSE IF action.type = "wait_for_element"
    THEN timedExecution(c, lg, shots, action.type, "action", NoError, FALSE)
    ELSE AgenticCall(action, runWithPage(c, AgenticApi(action.type), outcome, closeFails),
                     lg, shots)

(* executeAgenticAction: announce, validate, dispatch; a failure is logged *)
executeAgenticAction(action, c, lg, shots, outcome, closeFails, down) ==
    IF down THEN Unit(c, lg, shots, StorageError)
    ELSE LoggedAndRaised(AgenticBody(action, c, logInfo(lg, "Executing agentic action", 0),
                                     shots, outcome, closeFails),
                         "action", FALSE)

(* ---------------- DatabaseService: system instructions --------------- *)
SystemInstruction(id, pattern, testType, active, content) ==
    [id |-> id, url_pattern |-> pattern, test_type |-> testType, is_active |-> active,
     instructions |-> content]

(* results.results[0] || null *)
NoInstruction == SystemInstruction(0, << >>, "none", FALSE, "null")

TestTypes == {"traditional", "agentic"}

(* strings are sequences of characters; "*" is the wildcard of a pattern *)
PatternPool == { << >>, <<"a">>, <<"b">>, <<"a", "b">>, <<"a", "*">> }
UrlPool == { <<"a", "b">>, <<"b">>, <<"a", "*">>, <<"b", "a", "b">> }

(* the instructions column: two texts that are JSON and one that is not *)
ContentPool == {"A", "B", "not json"}

Chars(str) == { str[i] : i \in 1..Len(str) }

(* the positions of url at which pattern occurs *)
Occurrences(url, pattern) ==
    { i \in 1..(Len(url) - Len(pattern) + 1) : SubSeq(url, i, i + Len(pattern) - 1) = pattern }

First(S) == CHOOSE i \in S : \A j \in S : i <= j

(* SQL instr(url, url_pattern): the position of the first occurrence, or 0 *)
instr(url, pattern) ==
    IF Occurrences(url, pattern) = {} THEN 0 ELSE First(Occurrences(url, pattern))

(* url.includes(pattern) *)
includes(url, pattern) == Occurrences(url, pattern) # {}

(* pattern.replace(/\*/g, '.*') *)
replaceWildcards(pattern) ==
    [i \in 1..Len(pattern) |-> IF pattern[i] = "*" THEN ".*" ELSE pattern[i]]

(* the regular expression matches a prefix of text *)
RECURSIVE MatchHere(_, _)
MatchHere(regex, text) ==
    IF regex = << >> THEN TRUE
    ELSE IF Head(regex) = ".*"
    THEN \E k \in 0..Len(text) : MatchHere(Tail(regex), SubSeq(text, k + 1, Len(text)))
    ELSE /\ text # << >>
         /\ Head(text) = Head(regex)
         /\ MatchHere(Tail(regex), Tail(text))

(* new RegExp(...).test(url): the expression matches somewhere in url *)
regexTest(regex, url) ==
    \E k \in 0..Len(url) : MatchHere(regex, SubSeq(url, k + 1, Len(url)))

(* the filter of findBestMatchingConfig *)
MatchesPattern(url, pattern) ==
    IF "*" \in Chars(pattern)
    THEN regexTest(replaceWildcards(pattern), url)
    ELSE includes(url, pattern)

(* the rows of M with the longest url_pattern *)
Longest(configs, M) ==
    { i \in M : \A j \in M : Len(configs[j].url_pattern) <= Len(configs[i].url_pattern) }

(* findBestMatchingConfig: the first of the longest matches (the sort is stable) *)
BestOf(configs, M) ==
    IF M = {} THEN NoInstruction ELSE configs[First(Longest(configs, M))]

findBestMatchingConfig(url, configs) ==
    BestOf(configs, { i \in 1..Len(configs) : MatchesPattern(url, configs[i].url_pattern) })

(* the WHERE clause of getSystemInstructionByUrl *)
Selected(rows, url, testType) ==
    { i \in 1..Len(rows) :
        /\ rows[i].is_active
        /\ testType \in TestTypes => rows[i].test_type = testType
        /\ instr(url, rows[i].url_pattern) > 0 }

(* ORDER BY LENGTH(url_pattern) DESC LIMIT 1: any of the longest selected rows *)
FirstRow(rows, M) ==
    IF M = {} THEN {NoInstruction} ELSE { rows[i] : i \in Longest(rows, M) }

getSystemInstructionByUrl(rows, url, testType) ==
    FirstRow(rows, Selected(rows, url, testType))

NoLookup == [done |-> FALSE, url |-> << >>, testType |-> "undefined", found |-> NoInstruction]

(* ------------------------------- state -------------------------------- *)
VARIABLES
    kind,           \* the endpoint of the request: "traditional" or "agentic"
    testCase,       \* let testCase: payload.testCase until a stored one replaces it
    config,         \* let testConfig: payload.config until a stored one replaces it
    storageFaults,  \* whether the database may reject an operation
    pc,             \* position of the request handler and its executor
    session,        \* the test_sessions row of the request
    log,            \* action_logs rows of the session, in insertion order
    testResults,    \* test_results rows of the session, in insertion order
    playwright,     \* the PlaywrightClient of the request
    remote,         \* the browser service: open handles and the calls it received
    success,        \* executeTest: let success
    stepIdx,        \* executeTest: position in testCase.steps / the action plan
    assertIdx,      \* executeTest: position in testCase.assertions
    attempts,       \* executeTest: let attempts
    caught,         \* the error travelling to the enclosing catch
    screenshots,    \* executeTest: screenshots.length
    timer,          \* testTimeout: "unset", "armed", "fired" or "cleared"
    result,         \* the TestExecutionResult returned to the handler
    raised,         \* the error executeTest rejected with
    response,       \* the HTTP response of the request
    instructions,   \* the system_instructions table, in order of insertion
    lookup,         \* the last answer of getSystemInstructionByUrl
    payload,        \* the body of the request: url, useStoredConfig, inline test
    configId,       \* handleTraditionalTest / handleAgenticTest: let configId
    clients,        \* the test requests in progress and the client each one uses
    logTable,       \* action_logs with its timestamp column, and what was read from it
    closing         \* the calls of dispose in progress: what each captured, what it closes next

vars == << closing, logTable, clients, payload, configId, instructions, lookup, kind, testCase, config, storageFaults, pc, session, log, testResults,
           playwright, remote, success, stepIdx, assertIdx, attempts, caught,
           screenshots, timer, result, raised, response >>

NoSession == [exists |-> FALSE, status |-> "none", end_time |-> FALSE,
              results |-> "null", error_summary |-> NoError, config_id |-> Undefined]
NoResult == [returned |-> FALSE, success |-> FALSE, error_summary |-> NoError,
             logs |-> << >>, screenshots |-> 0]
TestExecutionResult(ok, summary, logs, shots) ==
    [returned |-> TRUE, success |-> ok, error_summary |-> summary,
     logs |-> logs, screenshots |-> shots]
TestResult(unit, idx, status, error) ==
    [unit |-> unit, idx |-> idx, status |-> status, error_message |-> error]

EmptyTestCase == [steps |-> << >>, assertions |-> << >>]
NoConfig == [max_attempts |-> Undefined, success_criteria |-> << >>]

(* success_criteria of a request: no condition, or one *)
CriteriaPool == { << >>, << "criterion" >> }

TestCases == [steps : SeqsUpTo(StepPool, MaxSteps),
              assertions : SeqsUpTo(AssertionPool, MaxAssertions)]
Configs == [max_attempts : {Undefined} \cup 0..MaxAttemptsInput,
            success_criteria : CriteriaPool]

(* a database operation either runs or is rejected *)
DbFails == IF storageFaults THEN BOOLEAN ELSE {FALSE}

(* what the body of a request can be *)
Bodies == {"not json", "no url", "complete"}

(* the body of a test request: whether it parses and has a url, the url,   *)
(* useStoredConfig (absent counts as true) and whether it carries an       *)
(* inline test case or config                                              *)
Payload(body, url, useStoredConfig, inline) ==
    [body |-> body, url |-> url, useStoredConfig |-> useStoredConfig, inline |-> inline]
NoPayload == Payload("none", << >>, FALSE, FALSE)
RequestUrl == <<"a", "b">>

(* no test request in progress *)
Requests == 1..MaxRequests
NoRun == [st |-> "none", client |-> 0, calls |-> 0]
NoClients == [entry |-> "none", created |-> 0, run |-> [r \in Requests |-> NoRun]]

(* no call of dispose in progress *)
NoClosing == << >>

(* action_logs of one session: no row, the clock of CURRENT_TIMESTAMP at 0, *)
(* nothing read since the last write                                       *)
NoLogTable == [rows |-> << >>, now |-> 0, reads |-> << >>]

(* the locals of a handler and of its executor before the request is read *)
InitRun ==
    /\ pc = "h_parse"
    /\ configId = Undefined
    /\ session = NoSession
    /\ log = << >>
    /\ testResults = << >>
    /\ playwright = NewClient
    /\ remote = NoRemote
    /\ success = FALSE
    /\ stepIdx = 1
    /\ assertIdx = 1
    /\ attempts = 0
    /\ caught = NoError
    /\ screenshots = 0
    /\ timer = "unset"
    /\ result = NoResult
    /\ raised = NoError
    /\ response = "none"
    /\ lookup = NoLookup
    /\ clients = NoClients
    /\ logTable = NoLogTable /\ closing = NoClosing

(* a test request over an empty configuration store: the inline test case  *)
(* or config is any of the pool, or absent                                 *)
InitRequest(faults) ==
    /\ storageFaults = faults
    /\ kind \in {"traditional", "agentic"}
    /\ \/ /\ payload = Payload("complete", RequestUrl, TRUE, TRUE)
          /\ IF kind = "traditional"
             THEN testCase \in TestCases /\ config = NoConfig
             ELSE testCase = EmptyTestCase /\ config \in Configs
       \/ /\ payload \in { Payload("complete", RequestUrl, TRUE, FALSE),
                            Payload("complete", RequestUrl, FALSE, FALSE),
                            Payload("not json", << >>, FALSE, FALSE),
                            Payload("no url", << >>, FALSE, FALSE) }
          /\ testCase = EmptyTestCase
          /\ config = NoConfig
    /\ instructions = << >>
    /\ InitRun

Init == InitRequest(FALSE)
InitStorageFaults == InitRequest(TRUE)

(* --------------------------- request handler -------------------------- *)
(* executeTest rejected: the handler's catch answers with an error *)
Reject(error) ==
    /\ raised' = error
    /\ pc' = "h_catch"

(* JSON.parse of the instructions of a stored configuration *)
StoredTestCase(content) ==
    IF content = "A"
    THEN [steps |-> << TestStep("custom", FALSE, FALSE, FALSE) >>, assertions |-> << >>]
    ELSE [steps |-> << >>, assertions |-> << TestAssertion("custom", FALSE, "undefined") >>]

StoredConfig(content) ==
    IF content = "A"
    THEN [max_attempts |-> 1, success_criteria |-> << >>]
    ELSE [max_attempts |-> 1, success_criteria |-> << "criterion" >>]

(* the kind the handler passes to getSystemInstructionByUrl: handleAgenticTest *)
(* passes 'agentic', handleTraditionalTest passes none                        *)
LookupKind(endpoint) == IF endpoint = "agentic" THEN "agentic" ELSE "undefined"

(* the request is answered with an error before anything is created *)
Answered ==
    /\ pc' = "done"
    /\ response' = "error"

(* a handler that goes on without a test case of its own *)
UseProvidedUnchecked ==
    /\ pc' = "h_create"
    /\ UNCHANGED << testCase, config, configId, response >>

(* testCase = payload.testCase / config = payload.config, or the error when *)
(* the request has none                                                     *)
UseProvided ==
    /\ IF payload.inline
       THEN pc' = "h_create" /\ UNCHANGED response
       ELSE Answered
    /\ UNCHANGED << testCase, config, configId >>

(* the stored configuration is parsed and taken, and logInfo records it *)
UseStored(found, down) ==
    /\ testCase' = IF kind = "traditional" THEN StoredTestCase(found.instructions)
                   ELSE testCase
    /\ config' = IF kind = "agentic" THEN StoredConfig(found.instructions) ELSE config
    /\ configId' = found.id
    /\ IF down
       THEN pc' = "h_catch" /\ UNCHANGED log
       ELSE pc' = "h_create" /\ log' = logInfo(log, "Using stored configuration", 0)
    /\ UNCHANGED response

(* JSON.parse raised: logWarning, then the test case of the request *)
ParseFailed(down) ==
    IF down
    THEN /\ pc' = "h_catch"
         /\ UNCHANGED << testCase, config, configId, response, log >>
    ELSE /\ log' = logWarning(log, "Failed to parse stored configuration")
         /\ UseProvided

(* the branch on the row the lookup returned *)
StoredOrProvided(found, down) ==
    IF found # NoInstruction /\ found.test_type = kind
    THEN IF found.instructions = "not json" THEN ParseFailed(down) ELSE UseStored(found, down)
    ELSE UseProvided /\ UNCHANGED log

(* if (payload.useStoredConfig !== false): the lookup, which may be rejected *)
ResolveTest(down) ==
    IF ~payload.useStoredConfig THEN UseProvided /\ UNCHANGED log
    ELSE IF down
    THEN /\ pc' = "h_catch"
         /\ UNCHANGED << testCase, config, configId, response, log >>
    ELSE \E found \in getSystemInstructionByUrl(instructions, payload.url, LookupKind(kind)) :
            StoredOrProvided(found, down)

(* request.json() and the url check: a body that does not parse reaches the *)
(* catch, a body without url is answered at once; then the test case or the *)
(* config of the run is resolved                                            *)
ParseRequest ==
    /\ pc = "h_parse"
    /\ CASE payload.body = "not json" ->
              /\ pc' = "h_catch"
              /\ UNCHANGED << testCase, config, configId, response, log >>
         [] payload.body = "no url" ->
              /\ Answered
              /\ UNCHANGED << testCase, config, configId, log >>
         [] OTHER -> \E down \in DbFails : ResolveTest(down)
    /\ UNCHANGED << closing, logTable, clients, payload, instructions, lookup, kind, storageFaults, session,
                    testResults, playwright, remote, success, stepIdx, assertIdx,
                    attempts, caught, screenshots, timer, result, raised >>

(* handleTraditionalTest / handleAgenticTest: db.createTestSession *)
CreateTestSession ==
    /\ pc = "h_create"
    /\ \E down \in DbFails :
         IF down
         THEN pc' = "h_catch" /\ UNCHANGED session
         ELSE /\ session' = [NoSession EXCEPT !.exists = TRUE, !.status = "running",
                                              !.config_id = configId]
              /\ pc' = "h_session_start"
    /\ UNCHANGED << closing, logTable, clients, payload, configId, instructions, lookup, kind, testCase, config, storageFaults, log, testResults, playwright,
                    remote, success, stepIdx, assertIdx, attempts, caught, screenshots,
                    timer, result, raised, response >>

(* logger.logSessionStart, new PlaywrightClient, new executor, executeTest called *)
StartSession ==
    /\ pc = "h_session_start"
    /\ \E down \in DbFails :
         IF down
         THEN pc' = "h_catch" /\ UNCHANGED << log, playwright >>
         ELSE /\ log' = logSessionStart(log, kind)
              /\ playwright' = NewClient
              /\ pc' = IF kind = "traditional" THEN "t_begin" ELSE "a_begin"
    /\ UNCHANGED << closing, logTable, clients, payload, configId, instructions, lookup, kind, testCase, config, storageFaults, session, testResults, remote,
                    success, stepIdx, assertIdx, attempts, caught, screenshots, timer,
                    result, raised, response >>

(* db.updateTestSession with the status of the returned result *)
UpdateTestSession ==
    /\ pc = "h_update"
    /\ \E down \in DbFails :
         IF down
         THEN pc' = "h_catch" /\ UNCHANGED session
         ELSE /\ session' = IF session.exists
                            THEN [session EXCEPT
                                    !.status = IF result.success THEN "completed" ELSE "failed",
                                    !.end_time = TRUE,
                                    !.results = IF result.success THEN "success" ELSE "failure",
                                    !.error_summary = result.error_summary]
                            ELSE session
              /\ pc' = "h_session_end"
    /\ UNCHANGED << closing, logTable, clients, payload, configId, instructions, lookup, kind, testCase, config, storageFaults, log, testResults, playwright,
                    remote, success, stepIdx, assertIdx, attempts, caught, screenshots,
                    timer, result, raised, response >>

(* logger.logSessionEnd and the success response *)
EndSession ==
    /\ pc = "h_session_end"
    /\ \E down \in DbFails :
         IF down
         THEN pc' = "h_catch" /\ UNCHANGED << log, response >>
         ELSE /\ log' = logSessionEnd(log, IF result.success THEN "completed" ELSE "failed")
              /\ response' = "ok"
              /\ pc' = "done"
    /\ UNCHANGED << closing, logTable, clients, payload, configId, instructions, lookup, kind, testCase, config, storageFaults, session, testResults, playwright,
                    remote, success, stepIdx, assertIdx, attempts, caught, screenshots,
                    timer, result, raised >>

(* the catch of the handler: errorResponse *)
HandlerCatch ==
    /\ pc = "h_catch"
    /\ response' = "error"
    /\ pc' = "done"
    /\ UNCHANGED << closing, logTable, clients, payload, configId, instructions, lookup, kind, testCase, config, storageFaults, session, log, testResults,
                    playwright, remote, success, stepIdx, assertIdx, attempts, caught,
                    screenshots, timer, result, raised >>

(* a cancellation that replaces the whole row instead of updating one column *)
CancelSessionReplacesRow ==
    /\ session.exists
    /\ session.status # "cancelled"
    /\ session' = [NoSession EXCEPT !.exists = TRUE, !.status = "cancelled"]
    /\ UNCHANGED << closing, logTable, clients, payload, configId, instructions, lookup, kind, testCase, config, storageFaults, pc, log, testResults, playwright,
                    remote, success, stepIdx, assertIdx, attempts, caught, screenshots,
                    timer, result, raised, response >>

(* handleSessionEndpoint, DELETE: updateTestSession(id, {status: 'cancelled'}) *)
CancelSession ==
    /\ session.exists
    /\ session.status # "cancelled"
    /\ session' = [session EXCEPT !.status = "cancelled"]
    /\ UNCHANGED << closing, logTable, clients, payload, configId, instructions, lookup, kind, testCase, config, storageFaults, pc, log, testResults, playwright,
                    remote, success, stepIdx, assertIdx, attempts, caught, screenshots,
                    timer, result, raised, response >>

(* ------------------- TraditionalTestExecutor.executeTest -------------- *)
AfterSteps(i) ==
    IF i <= Len(testCase.steps) THEN "t_steps"
    ELSE IF Len(testCase.assertions) > 0 THEN "t_assertions" ELSE "t_end"

AfterAssertions(j) ==
    IF j <= Len(testCase.assertions) THEN "t_assertions" ELSE "t_end"

(* let success = true, then logger.logTestStart, outside the try *)
TraditionalStart ==
    /\ pc = "t_begin"
    /\ success' = TRUE
    /\ \E down \in DbFails :
         IF down
         THEN Reject(StorageError) /\ UNCHANGED log
         ELSE log' = logTestStart(log) /\ pc' = AfterSteps(1) /\ UNCHANGED raised
    /\ UNCHANGED << closing, logTable, clients, payload, configId, instructions, lookup, kind, testCase, config, storageFaults, session, testResults, playwright,
                    remote, stepIdx, assertIdx, attempts, caught, screenshots,
                    timer, result, response >>

(* a step loop that goes on after a failed step *)
StepFailedGoesOn(r, down) ==
    /\ success' = FALSE
    /\ testResults' = IF down THEN testResults
                      ELSE Append(testResults, TestResult("step", stepIdx, "failed", r.threw))
    /\ log' = IF down THEN r.log ELSE logError(r.log, r.threw, "step", 0)
    /\ stepIdx' = stepIdx + 1
    /\ pc' = AfterSteps(stepIdx + 1)
    /\ UNCHANGED caught

(* the catch of the step loop: success = false, the failed record, the error *)
(* entry and the throw that ends the run                                    *)
StepFailed(r, down) ==
    /\ success' = FALSE
    /\ caught' = IF down THEN StorageError ELSE r.threw
    /\ testResults' = IF down THEN testResults
                      ELSE Append(testResults, TestResult("step", stepIdx, "failed", r.threw))
    /\ log' = IF down THEN r.log ELSE logError(r.log, r.threw, "step", 0)
    /\ pc' = "t_end"
    /\ UNCHANGED stepIdx

StepPassed(r) ==
    /\ testResults' = Append(testResults, TestResult("step", stepIdx, "passed", NoError))
    /\ log' = r.log
    /\ stepIdx' = stepIdx + 1
    /\ pc' = AfterSteps(stepIdx + 1)
    /\ UNCHANGED << success, caught >>

StepDone(r, down) ==
    /\ playwright' = r.pw
    /\ remote' = r.rem
    /\ screenshots' = r.screenshots
    /\ IF r.threw = NoError THEN StepPassed(r) ELSE StepFailed(r, down)

(* one turn of the step loop: executeStep, then saveTestResult or the catch *)
ExecuteStep ==
    /\ pc = "t_steps"
    /\ \E outcome \in Outcomes(playwright), closeFails \in CloseFailures, down \in DbFails :
         StepDone(executeStep(testCase.steps[stepIdx], [pw |-> playwright, rem |-> remote],
                              log, screenshots, outcome, closeFails, down),
                  down)
    /\ UNCHANGED << closing, logTable, clients, payload, configId, instructions, lookup, kind, testCase, config, storageFaults, session, assertIdx, attempts,
                    timer, result, raised, response >>

(* an assertion loop that a failed assertion leaves, as the step loop does *)
AssertionFailedStops(r, down) ==
    /\ success' = FALSE
    /\ caught' = IF down THEN StorageError ELSE r.threw
    /\ testResults' = IF down THEN testResults
                      ELSE Append(testResults,
                                  TestResult("assertion", assertIdx, "failed", r.threw))
    /\ log' = IF down THEN r.log ELSE logError(r.log, r.threw, "assertion", 0)
    /\ pc' = "t_end"
    /\ UNCHANGED assertIdx

(* an assertion catch that forgets success = false *)
AssertionFailedKeepsSuccess(r, down) ==
    /\ UNCHANGED success
    /\ IF down
       THEN /\ caught' = StorageError
            /\ pc' = "t_end"
            /\ log' = r.log
            /\ UNCHANGED << testResults, assertIdx >>
       ELSE /\ testResults' = Append(testResults,
                                     TestResult("assertion", assertIdx, "failed", r.threw))
            /\ log' = logError(r.log, r.threw, "assertion", 0)
            /\ assertIdx' = assertIdx + 1
            /\ pc' = AfterAssertions(assertIdx + 1)
            /\ UNCHANGED caught

(* the catch of the assertion loop: the failure is recorded and the loop goes *)
(* on; only a rejected write in the catch leaves the loop                    *)
AssertionFailed(r, down) ==
    /\ success' = FALSE
    /\ IF down
       THEN /\ caught' = StorageError
            /\ pc' = "t_end"
            /\ log' = r.log
            /\ UNCHANGED << testResults, assertIdx >>
       ELSE /\ testResults' = Append(testResults,
                                     TestResult("assertion", assertIdx, "failed", r.threw))
            /\ log' = logError(r.log, r.threw, "assertion", 0)
            /\ assertIdx' = assertIdx + 1
            /\ pc' = AfterAssertions(assertIdx + 1)
            /\ UNCHANGED caught

AssertionPassed(r) ==
    /\ testResults' = Append(testResults, TestResult("assertion", assertIdx, "passed", NoError))
    /\ log' = r.log
    /\ assertIdx' = assertIdx + 1
    /\ pc' = AfterAssertions(assertIdx + 1)
    /\ UNCHANGED << success, caught >>

AssertionDone(r, down) ==
    /\ playwright' = r.pw
    /\ remote' = r.rem
    /\ IF r.threw = NoError THEN AssertionPassed(r) ELSE AssertionFailed(r, down)

(* one turn of the assertion loop: executeAssertion, then saveTestResult or *)
(* the catch                                                               *)
ExecuteAssertion ==
    /\ pc = "t_assertions"
    /\ \E outcome \in Outcomes(playwright), closeFails \in CloseFailures, down \in DbFails :
         AssertionDone(executeAssertion(testCase.assertions[assertIdx],
                                        [pw |-> playwright, rem |-> remote],
                                        log, outcome, closeFails, down),
                       down)
    /\ UNCHANGED << closing, logTable, clients, payload, configId, instructions, lookup, kind, testCase, config, storageFaults, session, stepIdx, attempts,
                    screenshots, timer, result, raised, response >>

(* the end of executeTest: logTestEnd, getActionLogs and the returned result, *)
(* on the normal path or in the outer catch                                  *)
Returned(ok, summary, lg) ==
    /\ log' = lg
    /\ result' = TestExecutionResult(ok, summary, lg, screenshots)
    /\ pc' = "h_update"
    /\ UNCHANGED raised

TraditionalEnd ==
    /\ pc = "t_end"
    /\ \E down \in DbFails :
         IF down
         THEN Reject(StorageError) /\ UNCHANGED << log, result >>
         ELSE IF caught = NoError
         THEN Returned(success, NoError, logTestEnd(log, IF success THEN "passed" ELSE "failed"))
         ELSE Returned(FALSE, caught, logTestEnd(log, "failed"))
    /\ UNCHANGED << closing, logTable, clients, payload, configId, instructions, lookup, kind, testCase, config, storageFaults, session, testResults, playwright,
                    remote, success, stepIdx, assertIdx, attempts, caught, screenshots,
                    timer, response >>

(* --------------------- AgenticTestExecutor.executeTest ---------------- *)
(* the errors that leave the outer try pass its finally: clearTimeout *)
clearTimeout(t) == IF t = "armed" THEN "cleared" ELSE t

(* logTestStart, the first info entry and setTimeout, before the try *)
AgenticStart ==
    /\ pc = "a_begin"
    /\ success' = FALSE
    /\ attempts' = 0
    /\ \E down \in DbFails :
         IF down
         THEN Reject(StorageError) /\ UNCHANGED << log, timer >>
         ELSE /\ log' = logInfo(logTestStart(log), "Starting agentic test execution", 0)
              /\ timer' = "armed"
              /\ pc' = "a_loop"
              /\ UNCHANGED raised
    /\ UNCHANGED << closing, logTable, clients, payload, configId, instructions, lookup, kind, testCase, config, storageFaults, session, testResults, playwright,
                    remote, stepIdx, assertIdx, caught, screenshots, result, response >>

(* the callback of setTimeout: it throws in its own task, outside the run *)
TimeoutFires ==
    /\ timer = "armed"
    /\ timer' = "fired"
    /\ UNCHANGED << closing, logTable, clients, payload, configId, instructions, lookup, kind, testCase, config, storageFaults, pc, session, log, testResults,
                    playwright, remote, success, stepIdx, assertIdx, attempts, caught,
                    screenshots, result, raised, response >>

(* a loop test that is off by one *)
LoopConditionOffByOne == attempts <= maxAttemptsOf(config) /\ ~success

LoopCondition == attempts < maxAttemptsOf(config) /\ ~success

(* while (attempts < maxAttempts && !success): attempts++ and the start entry *)
StartAttempt ==
    /\ pc = "a_loop"
    /\ LoopCondition
    /\ attempts' = attempts + 1
    /\ \E down \in DbFails :
         IF down
         THEN Reject(StorageError) /\ timer' = clearTimeout(timer) /\ UNCHANGED log
         ELSE /\ log' = logInfo(log, "Starting attempt", attempts + 1)
              /\ pc' = "a_snapshot"
              /\ UNCHANGED << raised, timer >>
    /\ UNCHANGED << closing, logTable, clients, payload, configId, instructions, lookup, kind, testCase, config, storageFaults, session, testResults, playwright,
                    remote, success, stepIdx, assertIdx, caught, screenshots, result,
                    response >>

(* analyzeCurrentState and planActions: the entries they write *)
analyzeCurrentState(lg) ==
    logDebug(logInfo(lg, "Analyzing current state with AI agent", 0), "State analysis complete")

planLog(lg) ==
    logInfo(logInfo(lg, "Planning actions based on analysis and goal", 0),
            "Action plan generated", 0)

AnalyzeAndPlan(lg) ==
    logInfo(planLog(logInfo(analyzeCurrentState(logInfo(lg, "Took initial snapshot", 0)),
                            "Analyzed current state", 0)),
            "Generated action plan", 0)

(* the head of an attempt: initial snapshot, analysis and plan *)
Planned(r) ==
    /\ playwright' = r.pw
    /\ remote' = r.rem
    /\ IF r.threw = NoError
       THEN /\ log' = AnalyzeAndPlan(r.log)
            /\ stepIdx' = 1
            /\ pc' = "a_action"
            /\ UNCHANGED caught
       ELSE /\ log' = r.log
            /\ caught' = r.threw
            /\ pc' = "a_catch"
            /\ UNCHANGED stepIdx

SnapshotAndPlan ==
    /\ pc = "a_snapshot"
    /\ \E outcome \in Outcomes(playwright), closeFails \in CloseFailures, down \in DbFails :
         Planned(takeSnapshot([pw |-> playwright, rem |-> remote], log, screenshots,
                              outcome, closeFails, down))
    /\ UNCHANGED << closing, logTable, clients, payload, configId, instructions, lookup, kind, testCase, config, storageFaults, session, testResults, success,
                    assertIdx, attempts, screenshots, timer, result, raised, response >>

(* the check after an action: both entries of checkSuccessCriteria, and when *)
(* the criteria are met success = true, one more entry and the break          *)
criteriaLog(lg) ==
    logInfo(logInfo(lg, "Checking success criteria against current state", 0),
            "Success criteria check complete", 0)

(* a check that records the success but does not leave the plan loop *)
CriteriaCheckedNoBreak(lg) ==
    /\ stepIdx' = stepIdx + 1
    /\ UNCHANGED caught
    /\ success' = checkSuccessCriteria(config.success_criteria)
    /\ log' = IF checkSuccessCriteria(config.success_criteria)
              THEN logInfo(criteriaLog(lg), "Success criteria met", 0)
              ELSE criteriaLog(lg)
    /\ pc' = IF stepIdx + 1 > Len(planActions) THEN "a_attempt_end" ELSE "a_action"

CriteriaChecked(lg) ==
    /\ stepIdx' = stepIdx + 1
    /\ UNCHANGED caught
    /\ IF checkSuccessCriteria(config.success_criteria)
       THEN /\ success' = TRUE
            /\ log' = logInfo(criteriaLog(lg), "Success criteria met", 0)
            /\ pc' = "a_attempt_end"
       ELSE /\ log' = criteriaLog(lg)
            /\ pc' = IF stepIdx + 1 > Len(planActions) THEN "a_attempt_end" ELSE "a_action"
            /\ UNCHANGED success

AttemptThrew(lg, error) ==
    /\ log' = lg
    /\ caught' = error
    /\ pc' = "a_catch"
    /\ UNCHANGED << success, stepIdx >>

(* takeSnapshot and checkSuccessCriteria after the action *)
Rechecked(r) ==
    /\ playwright' = r.pw
    /\ remote' = r.rem
    /\ IF r.threw # NoError THEN AttemptThrew(r.log, r.threw) ELSE CriteriaChecked(r.log)

ActionDone(a) ==
    /\ screenshots' = a.screenshots
    /\ IF a.threw # NoError
       THEN /\ playwright' = a.pw
            /\ remote' = a.rem
            /\ AttemptThrew(a.log, a.threw)
       ELSE \E outcome \in Outcomes(a.pw), closeFails \in CloseFailures :
              Rechecked(takeSnapshot(a, a.log, a.screenshots, outcome, closeFails, FALSE))

(* one turn of the plan loop: executeAgenticAction, takeSnapshot, the check *)
ExecutePlanAction ==
    /\ pc = "a_action"
    /\ \E outcome \in Outcomes(playwright), closeFails \in CloseFailures, down \in DbFails :
         ActionDone(executeAgenticAction(planActions[stepIdx],
                                         [pw |-> playwright, rem |-> remote],
                                         log, screenshots, outcome, closeFails, down))
    /\ UNCHANGED << closing, logTable, clients, payload, configId, instructions, lookup, kind, testCase, config, storageFaults, session, testResults, assertIdx,
                    attempts, timer, result, raised, response >>

(* an attempt end that saves a failed record after every attempt without success *)
EndAttemptSavesEachFailure ==
    /\ pc = "a_attempt_end"
    /\ \E down \in DbFails :
         IF down
         THEN caught' = StorageError /\ pc' = "a_catch" /\ UNCHANGED testResults
         ELSE /\ testResults' = Append(testResults,
                   IF success THEN TestResult("agentic", attempts, "passed", NoError)
                   ELSE TestResult("agentic", attempts, "failed", GoalSummary))
              /\ pc' = "a_loop"
              /\ UNCHANGED caught
    /\ UNCHANGED << closing, logTable, clients, payload, configId, instructions, lookup, kind, testCase, config, storageFaults, session, log, playwright, remote,
                    success, stepIdx, assertIdx, attempts, screenshots, timer, result,
                    raised, response >>

(* after the plan loop: the passed record, or the failed one on the last attempt *)
EndAttempt ==
    /\ pc = "a_attempt_end"
    /\ \E down \in DbFails :
         IF success \/ attempts >= maxAttemptsOf(config)
         THEN IF down
              THEN caught' = StorageError /\ pc' = "a_catch" /\ UNCHANGED testResults
              ELSE /\ testResults' = Append(testResults,
                        IF success THEN TestResult("agentic", attempts, "passed", NoError)
                        ELSE TestResult("agentic", attempts, "failed", GoalSummary))
                   /\ pc' = "a_loop"
                   /\ UNCHANGED caught
         ELSE pc' = "a_loop" /\ UNCHANGED << testResults, caught >>
    /\ UNCHANGED << closing, logTable, clients, payload, configId, instructions, lookup, kind, testCase, config, storageFaults, session, log, playwright, remote,
                    success, stepIdx, assertIdx, attempts, screenshots, timer, result,
                    raised, response >>

(* a catch that logs the error and raises it again *)
CatchAttemptRaises ==
    /\ pc = "a_catch"
    /\ \E down \in DbFails :
         /\ Reject(IF down THEN StorageError ELSE caught)
         /\ timer' = clearTimeout(timer)
         /\ log' = IF down THEN log ELSE logError(log, caught, "attempt", attempts)
         /\ UNCHANGED testResults
    /\ UNCHANGED << closing, logTable, clients, payload, configId, instructions, lookup, kind, testCase, config, storageFaults, session, playwright, remote,
                    success, stepIdx, assertIdx, attempts, caught, screenshots, result,
                    response >>

(* the catch of an attempt: the error entry with the attempt number, and the *)
(* failed record when the attempts are used up                               *)
CatchAttempt ==
    /\ pc = "a_catch"
    /\ \E down \in DbFails :
         IF down
         THEN /\ Reject(StorageError)
              /\ timer' = clearTimeout(timer)
              /\ UNCHANGED << log, testResults >>
         ELSE /\ log' = logError(log, caught, "attempt", attempts)
              /\ testResults' = IF attempts >= maxAttemptsOf(config)
                                THEN Append(testResults,
                                            TestResult("agentic", attempts, "failed", caught))
                                ELSE testResults
              /\ pc' = "a_loop"
              /\ UNCHANGED << raised, timer >>
    /\ UNCHANGED << closing, logTable, clients, payload, configId, instructions, lookup, kind, testCase, config, storageFaults, session, playwright, remote,
                    success, stepIdx, assertIdx, attempts, caught, screenshots, result,
                    response >>

(* the loop is left: finally clearTimeout, logTestEnd, getActionLogs, return *)
AgenticEnd ==
    /\ pc = "a_loop"
    /\ ~LoopCondition
    /\ timer' = clearTimeout(timer)
    /\ \E down \in DbFails :
         IF down
         THEN Reject(StorageError) /\ UNCHANGED << log, result >>
         ELSE Returned(success, IF success THEN NoError ELSE GoalSummary,
                       logTestEnd(log, IF success THEN "passed" ELSE "failed"))
    /\ UNCHANGED << closing, logTable, clients, payload, configId, instructions, lookup, kind, testCase, config, storageFaults, session, testResults, playwright,
                    remote, success, stepIdx, assertIdx, attempts, caught, screenshots,
                    response >>

(* ------------------------- configuration store ------------------------ *)
RequestIdle ==
    UNCHANGED << closing, logTable, clients, payload, configId, kind, testCase, config, storageFaults, pc, session, log, testResults,
                 playwright, remote, success, stepIdx, assertIdx, attempts, caught,
                 screenshots, timer, result, raised, response >>

(* what the configuration endpoint is given. When the store is examined on  *)
(* its own: every pattern. While a test request is in progress: traditional *)
(* configurations for a part of its url, agentic ones for a longer part,    *)
(* with any instructions                                                    *)
PatternsWritten(testType) ==
    IF pc = "idle" THEN PatternPool
    ELSE IF testType = "traditional" THEN { <<"a">> } ELSE { <<"a", "b">> }
ContentsWritten == IF pc = "idle" THEN {"A"} ELSE ContentPool

(* POST /config: the required fields are checked, then createSystemInstruction *)
CreateSystemInstruction ==
    /\ Len(instructions) < MaxConfigs
    /\ \E testType \in TestTypes, active \in BOOLEAN, content \in ContentsWritten :
       \E pattern \in PatternsWritten(testType) :
         /\ pattern # << >>
         /\ instructions' = Append(instructions,
                SystemInstruction(Len(instructions) + 1, pattern, testType, active, content))
    /\ lookup' = NoLookup
    /\ RequestIdle

(* an update that reaches the test case of a request that took the row *)
UpdateSystemInstructionLive ==
    /\ \E id \in 1..Len(instructions), testType \in TestTypes, active \in BOOLEAN,
          content \in ContentsWritten :
       \E pattern \in PatternsWritten(testType) :
         /\ instructions[id] # SystemInstruction(id, pattern, testType, active, content)
         /\ instructions' = [instructions EXCEPT
                                ![id] = SystemInstruction(id, pattern, testType, active, content)]
         /\ testCase' = IF id = configId /\ kind = "traditional" /\ content # "not json"
                        THEN StoredTestCase(content) ELSE testCase
    /\ lookup' = NoLookup
    /\ UNCHANGED << closing, logTable, clients, payload, configId, kind, config, storageFaults, pc, session, log,
                    testResults, playwright, remote, success, stepIdx, assertIdx, attempts,
                    caught, screenshots, timer, result, raised, response >>

(* PUT /config: updateSystemInstruction sets the fields of the payload *)
UpdateSystemInstruction ==
    /\ \E id \in 1..Len(instructions), testType \in TestTypes, active \in BOOLEAN,
          content \in ContentsWritten :
       \E pattern \in PatternsWritten(testType) :
         /\ instructions[id] # SystemInstruction(id, pattern, testType, active, content)
         /\ instructions' = [instructions EXCEPT
                                ![id] = SystemInstruction(id, pattern, testType, active, content)]
    /\ lookup' = NoLookup
    /\ RequestIdle

(* DELETE /config: deleteSystemInstruction sets is_active = FALSE *)
DeleteSystemInstruction ==
    /\ \E id \in 1..Len(instructions) :
         /\ instructions[id].is_active
         /\ instructions' = [instructions EXCEPT ![id].is_active = FALSE]
    /\ lookup' = NoLookup
    /\ RequestIdle

(* a lookup of the stored configuration for a URL, with or without a kind *)
ResolveConfiguration ==
    /\ \E url \in UrlPool, testType \in TestTypes \cup {"undefined"} :
         \E found \in getSystemInstructionByUrl(instructions, url, testType) :
            lookup' = [done |-> TRUE, url |-> url, testType |-> testType, found |-> found]
    /\ UNCHANGED instructions
    /\ RequestIdle

(* no test request: the handler and executor locals hold their initial values *)
InitIdle ==
    /\ storageFaults = FALSE
    /\ kind = "traditional"
    /\ testCase = EmptyTestCase
    /\ config = NoConfig
    /\ payload = NoPayload
    /\ configId = Undefined
    /\ pc = "idle"
    /\ session = NoSession
    /\ log = << >>
    /\ testResults = << >>
    /\ playwright = NewClient
    /\ remote = NoRemote
    /\ success = FALSE
    /\ stepIdx = 1
    /\ assertIdx = 1
    /\ attempts = 0
    /\ caught = NoError
    /\ screenshots = 0
    /\ timer = "unset"
    /\ result = NoResult
    /\ raised = NoError
    /\ response = "none"
    /\ instructions = << >>
    /\ lookup = NoLookup

InitConfig == InitIdle /\ clients = NoClients /\ logTable = NoLogTable /\ closing = NoClosing

NextConfig ==
    \/ CreateSystemInstruction
    \/ UpdateSystemInstruction
    \/ DeleteSystemInstruction
    \/ ResolveConfiguration

(* ------------------- test requests and their clients ------------------ *)
(* the two entry points of the worker: src/index.ts hands the module-level *)
(* PlaywrightMCP to every executor, src/playwright-client.ts constructs a  *)
(* PlaywrightClient in every test request                                  *)
Entries == {"index.ts", "playwright-client.ts"}

(* the client 0 is the module-level PlaywrightMCP *)
ClientOf(entry, created) == IF entry = "index.ts" THEN 0 ELSE created + 1

(* the handler constructs the executor with its client and calls executeTest *)
BeginRun(r) ==
    /\ clients.run[r].st = "none"
    /\ clients' = [clients EXCEPT
                     !.run[r] = [st |-> "running",
                                 client |-> ClientOf(clients.entry, clients.created),
                                 calls |-> 0],
                     !.created = IF clients.entry = "index.ts" THEN @ ELSE @ + 1]

(* the executor of the request calls its client *)
CallClient(r) ==
    /\ clients.run[r].st = "running"
    /\ clients.run[r].calls < MaxCalls
    /\ clients' = [clients EXCEPT !.run[r].calls = @ + 1]

(* executeTest returns *)
FinishRun(r) ==
    /\ clients.run[r].st = "running"
    /\ clients' = [clients EXCEPT !.run[r].st = "done"]

OneRequestIdle ==
    UNCHANGED << closing, logTable, payload, configId, instructions, lookup, kind, testCase, config,
                 storageFaults, pc, session, log, testResults, playwright, remote,
                 success, stepIdx, assertIdx, attempts, caught, screenshots, timer,
                 result, raised, response >>

BeginTestRequest == (\E r \in Requests : BeginRun(r)) /\ OneRequestIdle
ExecutorCall == (\E r \in Requests : CallClient(r)) /\ OneRequestIdle
EndTestRequest == (\E r \in Requests : FinishRun(r)) /\ OneRequestIdle

InitClients ==
    /\ InitIdle
    /\ clients \in { [NoClients EXCEPT !.entry = entry] : entry \in Entries }
    /\ logTable = NoLogTable /\ closing = NoClosing

NextClients ==
    \/ BeginTestRequest
    \/ ExecutorCall
    \/ EndTestRequest

SpecClients == InitClients /\ [][NextClients]_vars

(* ---------------- PlaywrightClient called from outside ---------------- *)
(* the rest of the worker is idle *)
ClientOnly ==
    UNCHANGED << logTable, clients, payload, configId, instructions, lookup, kind, testCase,
                 config, storageFaults, pc, session, log, testResults, success, stepIdx,
                 assertIdx, attempts, caught, screenshots, timer, result, raised, response >>

(* the locals of dispose: the three promises it took, and the close it is at *)
Disposal(pw) ==
    [pagePromise |-> pw.pagePromise, contextPromise |-> pw.contextPromise,
     browserPromise |-> pw.browserPromise, next |-> "page"]

PromiseOf(d, k) ==
    CASE k = "page" -> d.pagePromise
      [] k = "context" -> d.contextPromise
      [] OTHER -> d.browserPromise

AfterClose(k) == IF k = "page" THEN "context" ELSE "browser"

Without(seq, i) == SubSeq(seq, 1, i - 1) \o SubSeq(seq, i + 1, Len(seq))

(* the head of dispose: the promises go to locals, the three fields to null *)
DisposeBegins(c) ==
    /\ closing' = Append(closing, Disposal(c.pw))
    /\ playwright' = NewClient
    /\ remote' = [c.rem EXCEPT !.disposals = @ + 1]

(* the try of runWithPage with the page at hand: the call, dispose in the catch *)
PageCall(c, outcome) ==
    IF c.pw.pagePromise.st # "ok"
    THEN playwright' = c.pw /\ remote' = c.rem /\ UNCHANGED closing
    ELSE IF outcome = "action_fail"
    THEN DisposeBegins([c EXCEPT !.rem.ops =
                          Append(@, ClientOp("call", "snapshot", c.pw.pagePromise.h))])
    ELSE /\ playwright' = c.pw
         /\ remote' = [c.rem EXCEPT !.ops =
                          Append(@, ClientOp("call", "snapshot", c.pw.pagePromise.h))]
         /\ UNCHANGED closing

(* one automation call: getPage, then the action on the page *)
AutomationCall ==
    /\ Len(remote.ops) < MaxClientOps
    /\ remote.disposals < MaxDisposals
    /\ playwright.pagePromise.st = "null" => remote.nextHandle <= MaxLaunches
    /\ \E outcome \in Outcomes(playwright) :
         PageCall(getPage([pw |-> playwright, rem |-> remote], outcome), outcome)
    /\ ClientOnly

(* a dispose that takes the promises and leaves them in the fields *)
DisposeKeepsHandles ==
    /\ remote.disposals < MaxDisposals
    /\ closing' = Append(closing, Disposal(playwright))
    /\ remote' = [remote EXCEPT !.disposals = @ + 1]
    /\ UNCHANGED playwright
    /\ ClientOnly

(* a call of dispose from outside, up to its first await *)
Dispose ==
    /\ remote.disposals < MaxDisposals
    /\ DisposeBegins([pw |-> playwright, rem |-> remote])
    /\ ClientOnly

(* the next close of a dispose in progress: page, context, browser, each in *)
(* its own try; the dispose is over after the browser                       *)
CloseNext ==
    /\ \E i \in 1..Len(closing) : \E fails \in BOOLEAN :
         /\ remote' = CloseOne(remote, PromiseOf(closing[i], closing[i].next), closing[i].next,
                               IF fails THEN {closing[i].next} ELSE {})
         /\ closing' = IF closing[i].next = "browser" THEN Without(closing, i)
                       ELSE [closing EXCEPT ![i].next = AfterClose(@)]
    /\ UNCHANGED playwright
    /\ ClientOnly

InitClient == InitIdle /\ clients = NoClients /\ logTable = NoLogTable /\ closing = NoClosing

NextClient ==
    \/ AutomationCall
    \/ Dispose
    \/ CloseNext

SpecClient == InitClient /\ [][NextClient]_vars

(* ------------------- action_logs and its timestamps ------------------- *)
(* the rest of the worker is idle *)
LogsOnly ==
    UNCHANGED << closing, clients, payload, configId, instructions, lookup, kind, testCase, config,
                 storageFaults, pc, session, log, testResults, playwright, remote,
                 success, stepIdx, assertIdx, attempts, caught, screenshots, timer,
                 result, raised, response >>

(* logAction: INSERT INTO action_logs; id is AUTOINCREMENT, timestamp is *)
(* DEFAULT CURRENT_TIMESTAMP, which counts whole seconds                 *)
LogAction ==
    /\ Len(logTable.rows) < MaxLogs
    /\ logTable' = [logTable EXCEPT
                      !.rows = Append(@, [id |-> Len(@) + 1, timestamp |-> logTable.now]),
                      !.reads = << >>]
    /\ LogsOnly

(* a second passes *)
Tick ==
    /\ logTable.now < MaxTime
    /\ logTable' = [logTable EXCEPT !.now = @ + 1]
    /\ LogsOnly

(* ORDER BY timestamp ASC: the rows in any order that has no row before a *)
(* row with an earlier timestamp; rows of one second come in any order    *)
OrderedByTimestamp(rows) ==
    { [i \in 1..Len(rows) |-> rows[p[i]]] :
        p \in { q \in Permutations(1..Len(rows)) :
                  \A i, j \in 1..Len(rows) :
                     i < j => rows[q[i]].timestamp <= rows[q[j]].timestamp } }

(* getActionLogs(sessionId) *)
GetActionLogs ==
    /\ Len(logTable.reads) < MaxReads
    /\ \E answer \in OrderedByTimestamp(logTable.rows) :
         logTable' = [logTable EXCEPT !.reads = Append(@, answer)]
    /\ LogsOnly

InitLogs == InitIdle /\ clients = NoClients /\ logTable = NoLogTable /\ closing = NoClosing

NextLogs ==
    \/ LogAction
    \/ Tick
    \/ GetActionLogs

SpecLogs == InitLogs /\ [][NextLogs]_vars

(* --------------------------- old-session cleanup ---------------------- *)
(* GET /cleanup/old-sessions with days of 1 or more: a session that old     *)
(* belongs to a request that has ended. DELETE FROM test_sessions removes   *)
(* the row, and ON DELETE CASCADE on action_logs.session_id and on          *)
(* test_results.session_id removes the rows of the session with it          *)
cleanupOldSessions ==
    /\ session' = NoSession
    /\ log' = << >>
    /\ testResults' = << >>

CleanupOldSessions ==
    /\ pc = "done"
    /\ session.exists
    /\ cleanupOldSessions
    /\ UNCHANGED << closing, logTable, clients, payload, configId, instructions, lookup, kind, testCase, config, storageFaults, pc, playwright,
                    remote, success, stepIdx, assertIdx, attempts, caught,
                    screenshots, timer, result, raised, response >>

(* ---------------------------- specification --------------------------- *)
Next ==
    \/ ParseRequest
    \/ CreateTestSession
    \/ StartSession
    \/ TraditionalStart
    \/ ExecuteStep
    \/ ExecuteAssertion
    \/ TraditionalEnd
    \/ AgenticStart
    \/ TimeoutFires
    \/ StartAttempt
    \/ SnapshotAndPlan
    \/ ExecutePlanAction
    \/ EndAttempt
    \/ CatchAttempt
    \/ AgenticEnd
    \/ UpdateTestSession
    \/ EndSession
    \/ HandlerCatch
    \/ CancelSession

Spec == Init /\ [][Next]_vars
SpecStorageFaults == InitStorageFaults /\ [][Next]_vars
SpecConfig == InitConfig /\ [][NextConfig]_vars

(* a test request while the configuration endpoint is in use: the request  *)
(* leaves useStoredConfig out and carries one inline test case or config,  *)
(* or none                                                                 *)
InlineTestCase ==
    [steps |-> << TestStep("screenshot", FALSE, FALSE, FALSE) >>, assertions |-> << >>]
InlineConfig == [max_attempts |-> 1, success_criteria |-> << >>]

InitStored ==
    /\ storageFaults = FALSE
    /\ kind \in {"traditional", "agentic"}
    /\ payload \in { Payload("complete", RequestUrl, TRUE, TRUE),
                      Payload("complete", RequestUrl, TRUE, FALSE),
                      Payload("not json", << >>, FALSE, FALSE) }
    /\ testCase = IF kind = "traditional" /\ payload.inline
                  THEN InlineTestCase ELSE EmptyTestCase
    /\ config = IF kind = "agentic" /\ payload.inline THEN InlineConfig ELSE NoConfig
    /\ instructions = << >>
    /\ InitRun

NextStored ==
    \/ Next
    \/ CreateSystemInstruction
    \/ UpdateSystemInstruction
    \/ DeleteSystemInstruction

SpecStored == InitStored /\ [][NextStored]_vars

(* the requests together with the cleanup of old sessions *)
NextCleanup == Next \/ CleanupOldSessions
SpecCleanup == Init /\ [][NextCleanup]_vars

(* ------------------------------- claims ------------------------------- *)
NumSteps == Len(testCase.steps)
NumAssertions == Len(testCase.assertions)

Failed(unit) ==
    { i \in 1..Len(testResults) :
        testResults[i].unit = unit /\ testResults[i].status = "failed" }

AllStepsPassed ==
    /\ kind = "traditional"
    /\ Len(testResults) >= NumSteps
    /\ \A k \in 1..NumSteps : testResults[k] = TestResult("step", k, "passed", NoError)

(* the log grows by nothing, or by the entry that ends the test or the session *)
OnlyEndEntry ==
    \/ log' = log
    \/ /\ Len(log') = Len(log) + 1
       /\ SubSeq(log', 1, Len(log)) = log
       /\ log'[Len(log')].action_type \in {"test_end", "session_end"}

(* C1: once a step of a traditional run has failed, no automation call is   *)
(* issued, no test-result record is written and the action log receives no  *)
(* entry for a later step or for an assertion: the only entries that follow *)
(* end the test and the session.                                            *)
C1_StepFailureStopsRun ==
    [][ Failed("step") # {} =>
          /\ remote' = remote
          /\ playwright' = playwright
          /\ testResults' = testResults
          /\ stepIdx' = stepIdx /\ assertIdx' = assertIdx
          /\ OnlyEndEntry ]_vars

(* a finished run whose first step failed with a second step and assertions left *)
C1_Witness ==
    /\ pc = "done" /\ response = "ok"
    /\ Failed("step") = {1}
    /\ NumSteps = 2 /\ NumAssertions > 0
    /\ Len(testResults) = 1

(* C2: when every step of a traditional run succeeded, the returned run has *)
(* executed every assertion, in list order, whatever the earlier assertions *)
(* gave.                                                                    *)
C2_EveryAssertionExecuted ==
    (result.returned /\ AllStepsPassed) =>
        /\ Len(testResults) = NumSteps + NumAssertions
        /\ \A j \in 1..NumAssertions :
              /\ testResults[NumSteps + j].unit = "assertion"
              /\ testResults[NumSteps + j].idx = j

(* the first of two assertions failed and the second one was executed *)
C2_Witness ==
    /\ result.returned /\ AllStepsPassed
    /\ NumAssertions = 2
    /\ Len(testResults) = NumSteps + 2
    /\ testResults[NumSteps + 1].status = "failed"

(* C3: a traditional run returns success = true exactly when every step and *)
(* every assertion was executed and none failed.                            *)
C3_SuccessIffAllPassed ==
    (result.returned /\ kind = "traditional") =>
        (result.success <=>
            /\ Len(testResults) = NumSteps + NumAssertions
            /\ \A i \in 1..Len(testResults) : testResults[i].status = "passed")

(* every step passed and exactly one of two assertions failed: success = false *)
C3_Witness ==
    /\ result.returned /\ AllStepsPassed
    /\ ~result.success
    /\ NumSteps > 0 /\ NumAssertions = 2
    /\ Cardinality(Failed("assertion")) = 1

(* C4: executeTest of either executor never rejects: whatever fails during  *)
(* the run, a log or test-result write included, the caller gets a result.  *)
C4_NeverRaises == raised = NoError

IsAttemptStart(e) == e.action_type = "info" /\ e.data = "Starting attempt"
IsAttemptError(e) == e.action_type = "error" /\ e.data = "attempt"
AttemptStarts == SelectSeq(log, IsAttemptStart)

NeverSatisfied ==
    /\ kind = "agentic"
    /\ config.max_attempts >= 1
    /\ config.success_criteria # << >>

(* C5: an agentic run with max_attempts = N >= 1 whose criteria are never   *)
(* satisfied returns after exactly N attempts, logged with the numbers 1..N *)
(* in order, each started from the head of the loop, with success = false   *)
(* and an error_summary that names the goal.                                *)
C5_ExactlyNAttempts ==
    /\ [](  (NeverSatisfied /\ result.returned) =>
              /\ attempts = config.max_attempts
              /\ Len(AttemptStarts) = config.max_attempts
              /\ \A i \in 1..Len(AttemptStarts) : AttemptStarts[i].n = i
              /\ ~result.success
              /\ result.error_summary = GoalSummary )
    /\ [][ attempts' # attempts => pc = "a_loop" /\ attempts' = attempts + 1 ]_vars

(* a returned run of two attempts with a criterion that is never met *)
C5_Witness ==
    /\ NeverSatisfied /\ result.returned
    /\ config.max_attempts = 2
    /\ attempts = 2

(* every plan action that ran is followed by a snapshot, and that by a check *)
ChecksFollowActions ==
    \A i \in 1..Len(log) :
       (log[i].data = "action" /\ log[i].error = NoError) =>
          /\ i + 1 <= Len(log)
          /\ log[i + 1].action_type = "take_snapshot"
          /\ log[i + 1].error = NoError =>
                /\ i + 2 <= Len(log)
                /\ log[i + 2].data = "Checking success criteria against current state"

(* C6: the criteria are evaluated after every executed plan action, and     *)
(* once an evaluation is satisfied no further plan action is executed, no   *)
(* automation call is issued, no attempt is started, and the run returns    *)
(* success = true.                                                          *)
C6_SuccessEndsLoop ==
    /\ [](kind = "agentic" =>
            /\ ChecksFollowActions
            /\ (result.returned => (result.success <=> success)))
    /\ [][ (kind = "agentic" /\ success) =>
              /\ success'
              /\ remote' = remote
              /\ attempts' = attempts
              /\ stepIdx' = stepIdx
              /\ pc' \notin {"a_action", "a_snapshot", "a_catch"} ]_vars

(* success after the first action of attempt 1: the second action never ran *)
C6_Witness ==
    /\ kind = "agentic" /\ result.returned /\ result.success
    /\ attempts = 1
    /\ stepIdx = 2
    /\ screenshots = 0

(* C7: once the timeout has elapsed no new attempt is started, and the run  *)
(* returns a failed result.                                                 *)
C7_TimeoutStopsRun ==
    /\ [][ timer = "fired" => attempts' = attempts ]_vars
    /\ []((timer = "fired" /\ result.returned) => ~result.success)

(* C8: an error of attempt k < max_attempts is logged with the number k, no *)
(* automation call follows it within the attempt, and the only thing the    *)
(* run does next is to start attempt k+1: it neither returns nor rejects.   *)
C8_ErrorStartsNextAttempt ==
    /\ [](kind = "agentic" =>
            \A i \in 1..Len(log) :
               (IsAttemptError(log[i]) /\ log[i].n < maxAttemptsOf(config)) =>
                  IF i = Len(log)
                  THEN pc = "a_loop" /\ LoopCondition /\ ~result.returned /\ raised = NoError
                  ELSE log[i + 1] = ActionLog("info", "Starting attempt", log[i].n + 1, NoError))
    /\ [][ pc = "a_catch" =>
              \/ pc' = "a_catch"
              \/ /\ caught # NoError
                 /\ log' = Append(log, ActionLog("error", "attempt", attempts, caught))
                 /\ remote' = remote
                 /\ pc' = "a_loop" ]_vars

(* the error of attempt 1 is in the log and attempt 2 was started after it *)
C8_Witness ==
    \E i \in 1..Len(log) :
       /\ IsAttemptError(log[i]) /\ log[i].n = 1
       /\ i < Len(log)
       /\ IsAttemptStart(log[i + 1]) /\ log[i + 1].n = 2

(* C9: when the last permitted attempt raised an error, the error_summary   *)
(* of the returned result is that error.                                    *)
C9_LastErrorIsSummary ==
    (kind = "agentic" /\ result.returned) =>
        \A i \in 1..Len(log) :
           (IsAttemptError(log[i]) /\ log[i].n = maxAttemptsOf(config)) =>
              result.error_summary = log[i].error

(* C10: when the run of a test endpoint has returned, every handle the run  *)
(* opened has been closed by a dispose of its client.                       *)
C10_ClientDisposed ==
    result.returned =>
        \A handle \in remote.open :
           \E k \in 1..Len(remote.ops) :
              remote.ops[k] = ClientOp("close", handle.kind, handle.h)

(* the entries a step appends to the log *)
NewEntries == { log'[i] : i \in (Len(log) + 1)..Len(log') }

(* timedExecution recorded the failure of an automation call *)
IsFailedCall(e) == e.action_type # "error" /\ e.error = AutomationError

(* the step ends with an automation call that failed: its failure is in the  *)
(* log, or the last thing the browser service saw is a launch or a close     *)
CallFailedNow ==
    \/ \E e \in NewEntries : IsFailedCall(e)
    \/ /\ Len(remote'.ops) > Len(remote.ops)
       /\ remote'.ops[Len(remote'.ops)].op \in {"launch", "close"}

(* the client holds a browser, a context or a page that is still open *)
HoldsLiveHandle ==
    \/ playwright.browserPromise.st = "ok"
         /\ Handle("browser", playwright.browserPromise.h) \in remote.open
    \/ playwright.contextPromise.st = "ok"
         /\ Handle("context", playwright.contextPromise.h) \in remote.open
    \/ playwright.pagePromise.st = "ok"
         /\ Handle("page", playwright.pagePromise.h) \in remote.open

(* C11: when an automation call of the client fails, a failed launch of the *)
(* browser, context or page included, the client holds no live browser,     *)
(* context or page once the failure has reached the caller.                 *)
C11_FailedCallReleases == [][ CallFailedNow => ~HoldsLiveHandle' ]_vars

(* an automation call of the run has failed *)
CallHasFailed ==
    \/ \E i \in 1..Len(log) : IsFailedCall(log[i])
    \/ \E k \in 1..Len(remote.ops) : remote.ops[k].op = "close"
    \/ playwright.pagePromise.st = "rejected"

(* C12: after an automation call has failed during a run, the browser       *)
(* service receives nothing more from the client of that run: no launch and *)
(* no call.                                                                 *)
C12_NoCallAfterFailure == [][ CallHasFailed => remote'.ops = remote.ops ]_vars

TerminalStatuses == {"completed", "failed", "cancelled"}

(* C13: a session with a stored result payload has status completed exactly *)
(* when the payload's success is true and status failed exactly when it is  *)
(* false, under every interleaving of the request with a cancellation.      *)
C13_StatusAgreesWithPayload ==
    (session.exists /\ session.results # "null") =>
        /\ session.status = "completed" <=> session.results = "success"
        /\ session.status = "failed" <=> session.results = "failure"

(* C14: once a session is cancelled its status never changes again, also    *)
(* when the executor of the session returns after the cancellation.         *)
C14_CancelledIsTerminal ==
    [][ session.status = "cancelled" => session'.status = "cancelled" ]_vars

(* C15: a session is created with status running before the executor       *)
(* starts, and once it is completed, failed or cancelled no operation moves *)
(* it to a different status.                                                *)
C15_OneTransitionOutOfRunning ==
    /\ [][ (~session.exists /\ session'.exists) =>
              session'.status = "running" /\ pc = "h_create" ]_vars
    /\ [][ session.status \in TerminalStatuses => session'.status = session.status ]_vars

(* C16: no test request ends, with a response or with an error, leaving the *)
(* session it created in status running.                                    *)
C16_NoSessionLeftRunning ==
    (pc = "done" /\ session.exists) => session.status \in TerminalStatuses

(* C17: DELETE /session on an existing session can be served whatever the   *)
(* status of the session, sets the status to cancelled, and leaves every    *)
(* other field of the session, the action log and the test results as they  *)
(* were.                                                                    *)
C17_CancelOnlySetsStatus ==
    /\ []((session.exists /\ session.status # "cancelled") => ENABLED CancelSession)
    /\ [][ (session'.status = "cancelled" /\ session.status # "cancelled") =>
              /\ session' = [session EXCEPT !.status = "cancelled"]
              /\ log' = log
              /\ testResults' = testResults
              /\ pc' = pc /\ result' = result /\ response' = response
              /\ remote' = remote /\ playwright' = playwright ]_vars

(* a completed session with its stored result was cancelled *)
C17_Witness ==
    /\ session.status = "cancelled"
    /\ session.results = "success"
    /\ session.end_time
    /\ Len(log) > 0 /\ Len(testResults) > 0

(* the rows a lookup may return: active and of the requested kind *)
Eligible ==
    { i \in 1..Len(instructions) :
        /\ instructions[i].is_active
        /\ lookup.testType \in TestTypes => instructions[i].test_type = lookup.testType }

(* the eligible rows whose pattern matches the URL of the lookup: as a      *)
(* regular expression when the pattern has a wildcard, as a substring else  *)
EligibleMatches ==
    { i \in Eligible : MatchesPattern(lookup.url, instructions[i].url_pattern) }

(* C18: the configuration a lookup returns has the longest url_pattern      *)
(* among the active configurations of the requested kind that match the     *)
(* URL: none of them has a strictly longer pattern.                         *)
C18_LongestMatchWins ==
    (lookup.done /\ lookup.found # NoInstruction) =>
        \A i \in EligibleMatches :
           Len(instructions[i].url_pattern) <= Len(lookup.found.url_pattern)

(* C19: after any sequence of create, update and delete a lookup never      *)
(* returns an inactive configuration, one of another kind than requested or *)
(* one that does not match the URL, and it returns none exactly when no     *)
(* active configuration of the requested kind matches.                      *)
C19_OnlyEligibleReturned ==
    lookup.done =>
        /\ lookup.found # NoInstruction =>
              /\ lookup.found.id \in EligibleMatches
              /\ instructions[lookup.found.id] = lookup.found
        /\ lookup.found = NoInstruction <=> EligibleMatches = {}

(* C20: the lookup treats a pattern as matching exactly when the pattern,   *)
(* with each wildcard expanded to any characters, matches the URL as a      *)
(* regular expression, or, without a wildcard, is a substring of the URL;   *)
(* and its answer agrees with findBestMatchingConfig on the eligible rows.  *)
C20_WildcardMatching ==
    lookup.done =>
        /\ \A i \in 1..Len(instructions) :
              instr(lookup.url, instructions[i].url_pattern) > 0
                 <=> MatchesPattern(lookup.url, instructions[i].url_pattern)
        /\ Len(lookup.found.url_pattern) =
              Len(BestOf(instructions, EligibleMatches).url_pattern)
        /\ lookup.found = NoInstruction <=> BestOf(instructions, EligibleMatches) = NoInstruction

(* C26: the agentic executor starts at most max_attempts attempts when the  *)
(* configuration gives max_attempts, and at most 3 when it does not; the    *)
(* attempt counter never exceeds that bound.                                *)
C26_AttemptsWithinBound ==
    kind = "agentic" =>
        attempts <= (IF config.max_attempts = Undefined
                     THEN DefaultMaxAttempts ELSE config.max_attempts)

(* the entries of the log that are no marker of the session or of the test *)
Markers == {"session_start", "session_end", "test_start", "test_end"}
UnitEntries == { i \in 1..Len(log) : log[i].action_type \notin Markers }
AssertionEntries ==
    { i \in 1..Len(log) : log[i].data \in {"assertion", "custom assertion"} }

(* C27: when the run of a traditional test case ends at a failing step with *)
(* k succeeded steps before it, the log holds one entry for each of the k   *)
(* succeeded steps, one entry for the failing step and no assertion entry,  *)
(* whether the step failed in its automation call or its field check.       *)
C27_OneEntryPerStep ==
    (kind = "traditional" /\ result.returned /\ Failed("step") # {}) =>
        /\ Cardinality(UnitEntries) =
              Cardinality({ i \in 1..Len(testResults) : testResults[i].unit = "step" })
        /\ AssertionEntries = {}

(* C28: every assertion that is attempted adds exactly one entry to the log, *)
(* whether it passes, fails its expectation, fails its field check or is    *)
(* custom.                                                                  *)
C28_OneEntryPerAssertion ==
    [][ pc = "t_assertions" => Len(log') = Len(log) + 1 ]_vars

(* C29: when an automation call has failed during a run, dispose of the     *)
(* client has been invoked exactly once by the time the run is over.        *)
C29_DisposedExactlyOnce ==
    (pc = "h_update" /\ CallHasFailed) => remote.disposals = 1

(* the unit about to run wraps its operation in timedExecution *)
TimedUnit ==
    \/ /\ pc = "t_steps"
       /\ StepValid(testCase.steps[stepIdx])
       /\ testCase.steps[stepIdx].action # "custom"
    \/ /\ pc = "t_assertions"
       /\ AssertionValid(testCase.assertions[assertIdx])
       /\ testCase.assertions[assertIdx].type # "custom"

(* the action type timedExecution is called with *)
TimedType ==
    IF pc = "t_steps" THEN testCase.steps[stepIdx].action
    ELSE "assertion_" \o testCase.assertions[assertIdx].type

(* the entries the unit writes that are no error entry of a catch *)
TimedEntries ==
    { i \in (Len(log) + 1)..Len(log') : log'[i].action_type # "error" }

(* C30: timedExecution writes exactly one entry per invocation, after the    *)
(* wrapped operation has ended. When the operation succeeded the entry has  *)
(* no error and the caller goes on; when it failed the entry has the error  *)
(* of the operation, and that same error reaches the caller.                *)
C30_TimedExecutionLogsOnce ==
    [][ (TimedUnit /\ testResults' # testResults) =>
          /\ TimedEntries = {Len(log) + 1}
          /\ log'[Len(log) + 1].action_type = TimedType
          /\ log'[Len(log) + 1].error = testResults'[Len(testResults')].error_message
          /\ testResults'[Len(testResults')].status = "passed"
                <=> log'[Len(log) + 1].error = NoError ]_vars

(* a wrapped automation call failed, its entry carries the error and the    *)
(* run has returned with that failure recorded                              *)
C30_Witness ==
    /\ result.returned
    /\ \E i \in 1..Len(log) : IsFailedCall(log[i])
    /\ \E k \in 1..Len(testResults) : testResults[k].error_message = AutomationError

(* C24: the action log is append-only: no operation, the cleanup of old     *)
(* sessions included, changes or removes an entry; the log of a session     *)
(* read later has every earlier read as a prefix.                           *)
C24_LogAppendOnly ==
    [][ /\ Len(log') >= Len(log)
        /\ SubSeq(log', 1, Len(log)) = log ]_vars

(* C25: two executor runs in progress at the same time never use the same   *)
(* automation client: each test request creates its own.                    *)
C25_NoSharedClient ==
    \A r1, r2 \in Requests :
        (r1 # r2 /\ clients.run[r1].st = "running" /\ clients.run[r2].st = "running") =>
            clients.run[r1].client # clients.run[r2].client

(* every row the lookup of the request can return is one the handler cannot *)
(* use: none, a row of the other kind, or instructions that do not parse    *)
NoUsableStored ==
    \A found \in getSystemInstructionByUrl(instructions, payload.url, LookupKind(kind)) :
        \/ found = NoInstruction
        \/ found.test_type # kind
        \/ found.instructions = "not json"

(* the handler reads a request that has neither a usable stored             *)
(* configuration nor an inline test case or config                          *)
NothingToRun ==
    /\ pc = "h_parse"
    /\ pc' # pc
    /\ payload.body = "complete"
    /\ ~payload.inline
    /\ ~payload.useStoredConfig \/ NoUsableStored

(* C21: a test request for which the lookup yields no usable configuration  *)
(* of the endpoint's kind and which carries no inline test case or config   *)
(* is answered with an error; no session record is created, no executor is  *)
(* invoked and no automation call is made, then or later.                   *)
C21_RejectedWithoutConfiguration ==
    [][ /\ NothingToRun =>
             /\ pc' = "done"
             /\ response' = "error"
             /\ session' = NoSession
             /\ remote' = NoRemote
        /\ (pc = "done" /\ ~session.exists) =>
             /\ pc' = "done"
             /\ ~session'.exists
             /\ remote' = NoRemote
             /\ ~result'.returned
             /\ testResults' = << >> ]_vars

(* a request without inline test case was rejected after the instructions   *)
(* of the stored configuration failed to parse                              *)
C21_Witness ==
    /\ pc = "done"
    /\ response = "error"
    /\ payload.body = "complete"
    /\ ~payload.inline
    /\ ~session.exists
    /\ \E i \in 1..Len(log) : log[i].action_type = "warning"

(* the active traditional configurations whose pattern the url contains *)
TraditionalMatches ==
    { i \in 1..Len(instructions) :
        /\ instructions[i].is_active
        /\ instructions[i].test_type = "traditional"
        /\ includes(payload.url, instructions[i].url_pattern) }

(* C22: POST /test/traditional with useStoredConfig not false runs a stored *)
(* configuration whenever at least one active traditional configuration    *)
(* matches the url (here: each of them with instructions that parse), also  *)
(* when an active agentic configuration with a longer pattern matches too.  *)
C22_StoredTraditionalRuns ==
    [][ ( /\ pc = "h_parse"
          /\ pc' # pc
          /\ kind = "traditional"
          /\ payload.body = "complete"
          /\ payload.useStoredConfig
          /\ TraditionalMatches # {}
          /\ \A i \in TraditionalMatches : instructions[i].instructions # "not json" ) =>
             /\ pc' = "h_create"
             /\ configId' \in { instructions[i].id : i \in TraditionalMatches } ]_vars

(* C23: a session executes the instructions resolved when its request       *)
(* started: once the handler has resolved them, no update, deactivation or  *)
(* addition of a stored configuration changes the test case or config the   *)
(* executor runs, nor the config_id of the session.                         *)
C23_ResolvedInstructionsKept ==
    [][ /\ pc # "h_parse" =>
             /\ testCase' = testCase
             /\ config' = config
             /\ configId' = configId
        /\ session.exists =>
             /\ session'.exists
             /\ session'.config_id = session.config_id
             /\ session.config_id = configId ]_vars

(* the executor has run the step of the stored test case it resolved, while *)
(* the row it came from now holds other instructions and is inactive        *)
C23_Witness ==
    /\ pc = "h_update"
    /\ kind = "traditional"
    /\ configId # Undefined
    /\ session.exists /\ session.config_id = configId
    /\ testCase = StoredTestCase("A")
    /\ instructions[configId].instructions = "B"
    /\ ~instructions[configId].is_active
    /\ testResults = << TestResult("step", 1, "passed", NoError) >>

(* the step or assertion about to run lacks a field it requires, and runs *)
InvalidStepRuns ==
    /\ pc = "t_steps"
    /\ ~StepValid(testCase.steps[stepIdx])
    /\ testResults' # testResults

InvalidAssertionRuns ==
    /\ pc = "t_assertions"
    /\ ~AssertionValid(testCase.assertions[assertIdx])
    /\ testResults' # testResults

(* agentic actions that lack a field they require *)
InvalidAgenticActions ==
    { AgenticAction(type, FALSE, FALSE, FALSE) :
        type \in {"click_element", "type_text", "navigate_to", "wait_for_element"} }

(* no unit of the test case is recorded twice *)
NoUnitRepeated ==
    \A i, j \in 1..Len(testResults) :
        (i # j /\ testResults[i].unit = testResults[j].unit) =>
            testResults[i].idx # testResults[j].idx

(* C31: a step, assertion or agentic action that lacks a required field     *)
(* fails at once: the browser service receives nothing for it, the failure  *)
(* recorded is the missing field, and the unit is not run again in the run. *)
C31_MissingFieldFailsAtOnce ==
    [][ /\ InvalidStepRuns =>
             /\ remote' = remote
             /\ testResults' = Append(testResults,
                                  TestResult("step", stepIdx, "failed", ValidationError))
             /\ pc' = "t_end"
        /\ InvalidAssertionRuns =>
             /\ remote' = remote
             /\ testResults' = Append(testResults,
                                  TestResult("assertion", assertIdx, "failed", ValidationError))
             /\ assertIdx' = assertIdx + 1
        /\ \A action \in InvalidAgenticActions, outcome \in Outcomes(playwright) :
             /\ AgenticBody(action, [pw |-> playwright, rem |-> remote], log, screenshots,
                            outcome, {}).rem = remote
             /\ AgenticBody(action, [pw |-> playwright, rem |-> remote], log, screenshots,
                            outcome, {}).threw = ValidationError
        /\ kind = "traditional" => NoUnitRepeated ]_vars

(* a run ended at a step without its required field and the browser service *)
(* was never called                                                         *)
C31_Witness ==
    /\ result.returned
    /\ remote.ops = << >>
    /\ \E k \in 1..Len(testResults) :
          testResults[k] = TestResult("step", k, "failed", ValidationError)

(* the entries written before the test_end entry, all of them while there is none *)
TestEnds == { i \in 1..Len(log) : log[i].action_type = "test_end" }
BeforeTestEnd == IF TestEnds = {} THEN Len(log) ELSE First(TestEnds) - 1

(* an error entry for a unit of that kind with that error, among entries from..to *)
ErrorEntry(context, error, from, to) ==
    \E i \in from..to :
        /\ log[i].action_type = "error"
        /\ log[i].data = context
        /\ log[i].error = error

(* timedExecution recorded an agentic action that failed *)
IsFailedAction(e) == e.data = "action" /\ e.action_type # "error" /\ e.error # NoError

(* C32: for every failed step, failed assertion and failed agentic action   *)
(* an error entry naming the unit and its error is in the log before the    *)
(* test_end entry of the run, hence before the executor returns.            *)
C32_FailureLoggedBeforeEnd ==
    /\ \A k \in 1..Len(testResults) :
          (testResults[k].status = "failed" /\ testResults[k].unit \in {"step", "assertion"}) =>
              ErrorEntry(testResults[k].unit, testResults[k].error_message, 1, BeforeTestEnd)
    /\ \A i \in 1..Len(log) :
          IsFailedAction(log[i]) => ErrorEntry("action", log[i].error, i + 1, BeforeTestEnd)

(* an agentic run has returned after one of its actions failed *)
C32_Witness ==
    /\ kind = "agentic"
    /\ result.returned
    /\ TestEnds # {}
    /\ \E i \in 1..Len(log) : IsFailedAction(log[i])

(* C33: getActionLogs called repeatedly with no log write in between       *)
(* returns the same sequence each time, and that sequence is the entries   *)
(* of the session in the order they were inserted, also for entries        *)
(* written within the same second.                                         *)
C33_ReadsInInsertionOrder ==
    \A i \in 1..Len(logTable.reads) :
        /\ logTable.reads[i] = logTable.rows
        /\ \A j \in 1..Len(logTable.reads) : logTable.reads[i] = logTable.reads[j]

(* C34: a result returned by an executor has an error_summary exactly when *)
(* its success is false.                                                    *)
C34_SummaryIffFailed ==
    result.returned => (result.error_summary # NoError <=> ~result.success)

(* C35: every action-log entry is written for a session whose record       *)
(* already exists: no log write precedes createTestSession.                 *)
C35_LogAfterSessionCreated ==
    log # << >> => session.exists

(* C36: an agentic run whose effective max_attempts is at least 1 saves     *)
(* exactly one test result, passed exactly when the returned success is     *)
(* true; the end of a failed attempt that is not the last one saves none.   *)
C36_OneAgenticResult ==
    kind = "agentic" =>
        /\ Len(testResults) <= 1
        /\ testResults # << >> => (success \/ attempts >= maxAttemptsOf(config))
        /\ result.returned =>
             /\ Len(testResults) = 1
             /\ testResults[1].status = "passed" <=> result.success

(* a run of two attempts has returned without success: the first attempt    *)
(* ended without a record, the second one saved the failed record           *)
C36_Witness ==
    /\ kind = "agentic"
    /\ result.returned
    /\ ~result.success
    /\ attempts = 2
    /\ testResults = << TestResult("agentic", 2, "failed", GoalSummary) >>

(* the positions at which an executor is at work *)
ExecutorAtWork ==
    pc \in {"t_begin", "t_steps", "t_assertions", "t_end",
            "a_begin", "a_loop", "a_snapshot", "a_action", "a_attempt_end", "a_catch"}

TestStartsIn(lg) == { i \in 1..Len(lg) : lg[i].action_type = "test_start" }
TestEndsIn(lg) == { i \in 1..Len(lg) : lg[i].action_type = "test_end" }

(* a returned result comes with one test_start and one test_end entry, the  *)
(* latter with the status of the returned success                           *)
OneStartOneEnd ==
    result.returned =>
        /\ Cardinality(TestStartsIn(log)) = 1
        /\ Cardinality(TestEndsIn(log)) = 1
        /\ \A i \in TestEndsIn(log) : log[i].data = "passed" <=> result.success

(* what an executor writes: test_start first, nothing after test_end, and   *)
(* test_end together with the return                                        *)
WritesBetweenStartAndEnd ==
    (ExecutorAtWork /\ log' # log) =>
        /\ Len(log') > Len(log)
        /\ SubSeq(log', 1, Len(log)) = log
        /\ TestEndsIn(log) = {}
        /\ TestStartsIn(log) = {} => log'[Len(log) + 1].action_type = "test_start"
        /\ TestEndsIn(log') # {} =>
             /\ TestEndsIn(log') = {Len(log')}
             /\ result'.returned

(* C37: every executor run that returns a result has written exactly one    *)
(* test_start and exactly one test_end entry, test_start before and         *)
(* test_end after every other entry the executor wrote, and the status of   *)
(* test_end is passed exactly when the returned success is true.            *)
C37_StartAndEndBracketTheRun ==
    []OneStartOneEnd /\ [][WritesBetweenStartAndEnd]_vars

(* an agentic run has returned without success, with entries of its         *)
(* attempts between test_start and a failed test_end                        *)
C37_Witness ==
    /\ result.returned
    /\ ~result.success
    /\ kind = "agentic"
    /\ \E i \in TestStartsIn(log) : \E j \in TestEndsIn(log) :
         /\ j > i + 2
         /\ log[j].data = "failed"

(* the handles the fields of the client resolve to *)
Held ==
    { Handle("page", playwright.pagePromise.h) : x \in { y \in {1} : playwright.pagePromise.st = "ok" } }
    \cup { Handle("context", playwright.contextPromise.h) : x \in { y \in {1} : playwright.contextPromise.st = "ok" } }
    \cup { Handle("browser", playwright.browserPromise.h) : x \in { y \in {1} : playwright.browserPromise.st = "ok" } }

Closes(k, h) == { i \in 1..Len(remote.ops) : remote.ops[i] = ClientOp("close", k, h) }
CloseRank(k) == IF k = "page" THEN 1 ELSE IF k = "context" THEN 2 ELSE 3
Launched == 1..(remote.nextHandle - 1)

(* one browser, one context and one page at most, all of the same launch;   *)
(* no resource closed twice; page before context before browser; a dispose  *)
(* that closed the page went on to the context and the browser              *)
ClientHandlesInOrder ==
    /\ \A k \in CloseKinds : Cardinality({ x \in Held \cap remote.open : x.kind = k }) <= 1
    /\ \A x, y \in Held : x.h = y.h
    /\ \A k \in CloseKinds : \A h \in Launched : Cardinality(Closes(k, h)) <= 1
    /\ \A h \in Launched : \A k1, k2 \in CloseKinds :
         CloseRank(k1) < CloseRank(k2) =>
            \A i \in Closes(k1, h) : \A j \in Closes(k2, h) : i < j
    /\ \A h \in Launched :
         (Closes("page", h) # {} /\ Handle("page", h) \in remote.open) =>
            \/ \E i \in 1..Len(closing) : closing[i].pagePromise = Resolved(h)
            \/ Closes("context", h) # {} /\ Closes("browser", h) # {}

(* a launch only when the client holds nothing; a close only of what the    *)
(* client no longer holds; a dispose of an empty client takes nothing       *)
ClientSteps ==
    /\ remote'.nextHandle # remote.nextHandle => playwright = NewClient
    /\ (Len(remote'.ops) > Len(remote.ops) /\ remote'.ops[Len(remote'.ops)].op = "close") =>
          \A x \in Held : x.h # remote'.ops[Len(remote'.ops)].h
    /\ (remote'.disposals # remote.disposals /\ remote'.nextHandle = remote.nextHandle
           /\ playwright = NewClient) =>
          /\ Len(closing') = Len(closing) + 1
          /\ \A k \in CloseKinds : PromiseOf(closing'[Len(closing')], k) = NullPromise
          /\ remote'.ops = remote.ops

(* C38: over any sequence of automation calls and dispose calls the client  *)
(* holds at most one live browser, context and page; dispose clears the     *)
(* three handles before it closes anything and closes page, context,        *)
(* browser in that order, going on when a close fails; every opened         *)
(* resource is closed at most once and a second dispose with no call in     *)
(* between closes nothing.                                                  *)
C38_ClientHandles ==
    []ClientHandlesInOrder /\ [][ClientSteps]_vars

(* after a launch and two disposes nothing is held or being closed; the     *)
(* page is still open because its close failed, and its context and browser *)
(* got their close all the same                                             *)
C38_Witness ==
    /\ remote.disposals = 2
    /\ closing = NoClosing
    /\ playwright = NewClient
    /\ \E h \in Launched :
         /\ Handle("page", h) \in remote.open
         /\ Closes("page", h) # {}
         /\ Closes("context", h) # {}
         /\ Closes("browser", h) # {}
    /\ remote.nextHandle = 2

====
